---------------------------- MODULE Spec2Model ----------------------------
(***************************************************************************)
(* Gap interpolation (scripts/step05_interpolation.py) followed by         *)
(* orientation propagation (scripts/step06_orientation_propagation.py)     *)
(* over a dataset of steps, each an item list plus geometric context.      *)
(*                                                                         *)
(* Angles are the exact rationals <<n, d>> (d > 0, lowest terms) in        *)
(* degrees; NoAngle stands for an item without the key.  The arithmetic    *)
(* of the interpolator is carried out exactly.  kappa_trend is carried out *)
(* in binary floating point with round-to-nearest-even, at a reduced       *)
(* precision, because its result at the edge of the range is decided by    *)
(* the rounding of the modulo.                                             *)
(***************************************************************************)
EXTENDS Integers, Sequences, FiniteSets

VARIABLES
    data,     \* step name -> [ctx, radius, z, items]: the dataset in memory
    order,    \* the step names in the dictionary's iteration order
    pc,       \* position in the pipeline
    si,       \* index in order of the step being visited
    segs,     \* uncalibrated_segments still to interpolate (step 05)
    seqs,     \* sequence ids still to process (step 06)
    file,     \* the datasets written by json.dump, in order
    input,    \* history: the dataset as loaded by interpolate_positions
    mid,      \* history: the dataset as loaded by propagate_orientation
    kin,      \* kappa_trend's arguments (only in SpecKappa)
    kout      \* kappa_trend's result (only in SpecKappa)

vars == <<data, order, pc, si, segs, seqs, file, input, mid, kin, kout>>

\* an item without "Angular position" (.get gives None)
NoAngle == <<0, 0>>

\* an item without "Sequence"
NoSequence == "None"

\* _parsed_ts: None, and the key not being there
TsNone   == -1
TsAbsent == -2

----------------------------------------------------------------------------
(* Exact rationals. *)

Abs(n) == IF n < 0 THEN -n ELSE n

RECURSIVE GCD(_, _)
GCD(a, b) == IF b = 0 THEN a ELSE GCD(b, a % b)

Rat(n, d) ==
    LET g == GCD(Abs(n), Abs(d))
        s == IF d < 0 THEN -1 ELSE 1
    IN  <<s * (n \div g), s * (d \div g)>>

RAdd(a, b)    == Rat(a[1] * b[2] + b[1] * a[2], a[2] * b[2])
RSub(a, b)    == Rat(a[1] * b[2] - b[1] * a[2], a[2] * b[2])
RMul(a, b)    == Rat(a[1] * b[1], a[2] * b[2])
RDivInt(a, k) == Rat(a[1], a[2] * k)
RInt(k)       == <<k, 1>>
RAbs(a)       == <<Abs(a[1]), a[2]>>
RLess(a, b)   == a[1] * b[2] < b[1] * a[2]

----------------------------------------------------------------------------
(* step05_interpolation.py *)

StatusOriginal     == "original"
StatusVisual       == "visually calibrated"
StatusUncalibrated == "uncalibrated"
StatusEstimated    == "estimated"

ContextKeys == {"axis_center", "calculated_radius", "calculated_z"}

\* HasContext testing one key only
HasContext_AxisOnly(step) == "axis_center" \in step.ctx

\* line 20: the three keys the step must hold
HasContext(step) == ContextKeys \subseteq step.ctx

\* lines 30-34: strptime of a well-formed stamp (a natural here, later is
\* larger); an empty, missing or malformed stamp (negative here) gives None
parse_ts(ts) == IF ts >= 0 THEN ts ELSE TsNone

\* datetime.max, above every stamp
DatetimeMax == 1000

\* line 37: the sort key (int(ImageNumber), _parsed_ts or datetime.max)
SortKey(item) ==
    <<item.ImageNumber,
      IF item.parsed_ts = TsNone THEN DatetimeMax ELSE item.parsed_ts>>

KeyLess(a, b) == a[1] < b[1] \/ (a[1] = b[1] /\ a[2] < b[2])

RECURSIVE InsertSorted(_, _)
InsertSorted(item, s) ==
    IF s = <<>> THEN <<item>>
    ELSE IF KeyLess(SortKey(item), SortKey(Head(s)))
         THEN <<item>> \o s
         ELSE <<Head(s)>> \o InsertSorted(item, Tail(s))

\* line 37: list.sort is stable: an item goes after the items of equal key
\* that precede it
RECURSIVE SortItems(_)
SortItems(s) ==
    IF s = <<>> THEN <<>>
    ELSE InsertSorted(s[Len(s)], SortItems(SubSeq(s, 1, Len(s) - 1)))

\* lines 30-34
WithParsedTs(items) ==
    [i \in 1..Len(items) |->
        [items[i] EXCEPT !.parsed_ts = parse_ts(items[i].Timestamp)]]

\* lines 85-87
WithoutParsedTs(items) ==
    [i \in 1..Len(items) |-> [items[i] EXCEPT !.parsed_ts = TsAbsent]]

IsAnchorStatus(status) == status \in {StatusOriginal, StatusVisual}

\* ScanItem taking only 'original' for an anchor and every other item for
\* part of the run
ScanItem_OriginalOnly(items, i, st) ==
    IF items[i].Calibration_Status = StatusOriginal
    THEN IF st.prev # 0 /\ st.current # <<>>
         THEN [segments |-> Append(st.segments,
                   [start |-> st.prev, end |-> i, run |-> st.current]),
               current |-> <<>>, prev |-> i]
         ELSE [st EXCEPT !.prev = i]
    ELSE [st EXCEPT !.current = Append(st.current, i)]

\* lines 44-52: st = [segments, current, prev]; segments hold positions in
\* the sorted list (the code holds references to the items), prev = 0 is
\* prev_calibrated = None
ScanItem(items, i, st) ==
    IF IsAnchorStatus(items[i].Calibration_Status)
    THEN IF st.prev # 0 /\ st.current # <<>>
         THEN [segments |-> Append(st.segments,
                   [start |-> st.prev, end |-> i, run |-> st.current]),
               current |-> <<>>, prev |-> i]
         ELSE [st EXCEPT !.prev = i]
    ELSE IF items[i].Calibration_Status = StatusUncalibrated
         THEN [st EXCEPT !.current = Append(st.current, i)]
         ELSE st

RECURSIVE ScanFrom(_, _, _)
ScanFrom(items, i, st) ==
    IF i > Len(items) THEN st ELSE ScanFrom(items, i + 1, ScanItem(items, i, st))

\* lines 40-52
uncalibrated_segments(items) ==
    ScanFrom(items, 1, [segments |-> <<>>, current |-> <<>>, prev |-> 0]).segments

\* SkipsSegment with a threshold of 0.001
SkipsSegment_Threshold(start_theta, end_theta) ==
    IF start_theta = NoAngle \/ end_theta = NoAngle THEN TRUE
    ELSE RLess(RAbs(RSub(start_theta, end_theta)), <<1, 1000>>)

\* line 60: the segment cannot be interpolated
SkipsSegment(start_theta, end_theta) ==
    IF start_theta = NoAngle \/ end_theta = NoAngle THEN TRUE
    ELSE RLess(RAbs(RSub(start_theta, end_theta)), <<1, 100>>)

\* np.linspace(start, stop, num): start + i*step, the last point set to stop
linspace(start, stop, num) ==
    LET step == RDivInt(RSub(stop, start), num - 1)
    IN  [i \in 1..num |->
            IF i = num THEN stop ELSE RAdd(start, RMul(RInt(i - 1), step))]

\* the quadratic through (-1, a), (0, b), (1, c), at t
QuadFit(a, b, c, t) ==
    LET lin  == RDivInt(RSub(c, a), 2)
        quad == RDivInt(RAdd(RSub(a, RMul(RInt(2), b)), c), 2)
    IN  RAdd(b, RAdd(RMul(RInt(t), lin), RMul(RInt(t * t), quad)))

\* line 72: savgol_filter(theta, 3, 2), mode 'interp': the least-squares
\* polynomial of order 2 over each window of 3, at the window's centre; the
\* first and last value from the fit of the first and last window
savgol_filter(theta) ==
    LET n == Len(theta)
    IN  [i \in 1..n |->
            IF i = 1 THEN QuadFit(theta[1], theta[2], theta[3], -1)
            ELSE IF i = n THEN QuadFit(theta[n - 2], theta[n - 1], theta[n], 1)
            ELSE QuadFit(theta[i - 1], theta[i], theta[i + 1], 0)]

\* theta_values slicing linspace(start, end, num_steps)[1:]: the end point
\* is among the values
theta_values_EndIncluded(start_theta, end_theta, n) ==
    LET num_steps == n + 1
        raw == IF RLess(RAbs(RSub(start_theta, end_theta)), RInt(1))
               THEN [i \in 1..n |-> start_theta]
               ELSE SubSeq(linspace(start_theta, end_theta, num_steps),
                           2, num_steps)
    IN  IF Len(raw) >= 3 THEN savgol_filter(raw) ELSE raw

\* theta_values propagating end_theta in the degenerate band
theta_values_BandEnd(start_theta, end_theta, n) ==
    LET num_steps == n + 1
        raw == IF RLess(RAbs(RSub(start_theta, end_theta)), RInt(1))
               THEN [i \in 1..n |-> end_theta]
               ELSE SubSeq(linspace(start_theta, end_theta, num_steps + 1),
                           2, num_steps)
    IN  IF Len(raw) >= 3 THEN savgol_filter(raw) ELSE raw

\* lines 64-72
theta_values(start_theta, end_theta, n) ==
    LET num_steps == n + 1
        raw == IF RLess(RAbs(RSub(start_theta, end_theta)), RInt(1))
               THEN [i \in 1..n |-> start_theta]
               ELSE SubSeq(linspace(start_theta, end_theta, num_steps + 1),
                           2, num_steps)
    IN  IF Len(raw) >= 3 THEN savgol_filter(raw) ELSE raw

\* processing.angular_transform.angle_to_xy: the projection on the circle,
\* kept as a term
angle_to_xy(theta, radius) ==
    [x |-> <<"angle_to_xy.x", theta, radius>>,
     y |-> <<"angle_to_xy.y", theta, radius>>]

\* lines 74-82
FillSegment(items, seg, radius, z_value) ==
    LET th == theta_values(items[seg.start].Angular,
                           items[seg.end].Angular, Len(seg.run))
        pos(i) == CHOOSE k \in 1..Len(seg.run) : seg.run[k] = i
    IN  [i \in 1..Len(items) |->
            IF \E k \in 1..Len(seg.run) : seg.run[k] = i
            THEN [items[i] EXCEPT
                    !.Angular = th[pos(i)],
                    !.X = angle_to_xy(th[pos(i)], radius).x,
                    !.Y = angle_to_xy(th[pos(i)], radius).y,
                    !.Z = z_value,
                    !.Calibration_Status = StatusEstimated]
            ELSE items[i]]

----------------------------------------------------------------------------
(* Binary floating point: a float is an integer number of quanta of        *)
(* 2^-FracBits degree that has at most Precision significant bits.         *)

FracBits == 3

\* 180 and 360 lie in [2^7, 2^9): as for a double, the floats below 256
\* are spaced half as far apart as those from 256 to 512
Precision == FracBits + 8

RECURSIVE Pow2(_)
Pow2(k) == IF k = 0 THEN 1 ELSE 2 * Pow2(k - 1)

Quanta == Pow2(FracBits)

\* the least e >= 0 with a / den < 2^(Precision + e)
RECURSIVE Exponent(_, _, _)
Exponent(a, den, e) ==
    IF a < Pow2(Precision + e) * den THEN e ELSE Exponent(a, den, e + 1)

\* the float nearest to num / den quanta, ties to the even significand
RoundQ(num, den) ==
    LET a  == Abs(num)
        e  == Exponent(a, den, 0)
        q  == Pow2(e) * den
        m  == a \div q
        r  == a % q
        up == 2 * r > q \/ (2 * r = q /\ m % 2 = 1)
        v  == (IF up THEN m + 1 ELSE m) * Pow2(e)
    IN  IF num < 0 THEN -v ELSE v

Round(n) == RoundQ(n, 1)

\* float % float as Python and numpy compute it: the exact fmod, which has
\* the sign of the dividend, then + b (rounded) when the signs differ
FloatMod(a, b) ==
    LET fm == IF a >= 0 THEN a % b ELSE -((-a) % b)
    IN  IF fm # 0 /\ fm < 0 THEN Round(fm + b) ELSE fm

----------------------------------------------------------------------------
(* step06_orientation_propagation.py *)

\* kappa_trend without the final - 180
kappa_trend_NoShift(slope, intercept, x) ==
    LET kappa_interp == Round(RoundQ(slope * x, Quanta) + intercept)
    IN  FloatMod(Round(kappa_interp + 180 * Quanta), 360 * Quanta)

\* lines 76-78; slope, intercept and x are floats, in quanta
kappa_trend(slope, intercept, x) ==
    LET kappa_interp == Round(RoundQ(slope * x, Quanta) + intercept)
    IN  Round(FloatMod(Round(kappa_interp + 180 * Quanta), 360 * Quanta)
              - 180 * Quanta)

\* the double nearest to an Angular position
ToFloat(r) == RoundQ(r[1] * Quanta, r[2])

\* line 110
SeqId(item) == IF item.Sequence = NoSequence THEN "Unknown" ELSE item.Sequence

\* lines 109-113: the sequence ids in order of first appearance
RECURSIVE GroupKeys(_, _)
GroupKeys(items, keys) ==
    IF items = <<>> THEN keys
    ELSE GroupKeys(Tail(items),
                   IF \E k \in 1..Len(keys) : keys[k] = SeqId(Head(items))
                   THEN keys ELSE Append(keys, SeqId(Head(items))))

\* line 113: the positions of a sequence's items, in list order
SequencePositions(items, seq_id) ==
    {i \in 1..Len(items) : SeqId(items[i]) = seq_id}

\* line 117
Originals(items, seq_id) ==
    {i \in SequencePositions(items, seq_id) :
        items[i].Calibration_Status = StatusOriginal}

\* EnoughOriginals asking for 2
EnoughOriginals_Two(items, seq_id) == Cardinality(Originals(items, seq_id)) >= 2

\* line 118
EnoughOriginals(items, seq_id) == Cardinality(Originals(items, seq_id)) >= 3

\* lines 43-81: how compute_sinusoidal_offsets can end on these originals.
\*   line 43: item["Angular position"] raises KeyError on a missing key;
\*   lines 56-60: n is the number of distinct angular positions;
\*   lines 63-67: savgol_filter raises ValueError unless poly_order <
\*     window_size, and on an even window_size in the SciPy releases that
\*     require an odd one;
\*   lines 12-13, 21-25: with n >= 3, curve_fit raises TypeError, which is
\*     not caught, for 4 parameters on fewer than 4 points.
FitOutcomes(items, originals) ==
    IF \E i \in originals : items[i].Angular = NoAngle THEN {"raise"}
    ELSE LET n == Cardinality({items[i].Angular : i \in originals})
             window_size == IF n > 3 THEN (IF n < 11 THEN n ELSE 11) ELSE n
             poly_order  == IF window_size > 3 THEN 3 ELSE 1
         IN  IF poly_order >= window_size THEN {"raise"}
             ELSE IF ~(n < 3) /\ 4 > n THEN {"raise"}
             ELSE IF window_size % 2 = 0 THEN {"ok", "raise"}
             ELSE {"ok"}

\* IsCorrected taking every status but 'original'
IsCorrected_NotOriginal(status) == status # StatusOriginal

\* line 91
IsCorrected(status) == status \in {StatusVisual, StatusEstimated}

\* lines 90-95: the positions the loop reaches before line 92 raises
\* KeyError, or all of them
RECURSIVE Reached(_, _, _)
Reached(items, todo, acc) ==
    IF todo = <<>> THEN [set |-> acc, raised |-> FALSE]
    ELSE LET i == Head(todo)
         IN  IF IsCorrected(items[i].Calibration_Status)
                /\ items[i].Angular = NoAngle
             THEN [set |-> acc, raised |-> TRUE]
             ELSE Reached(items, Tail(todo), acc \cup {i})

\* the positions of a set in increasing order
RECURSIVE SetToSeq(_)
SetToSeq(S) ==
    IF S = {} THEN <<>>
    ELSE LET m == CHOOSE x \in S : \A y \in S : x <= y
         IN  <<m>> \o SetToSeq(S \ {m})

\* lines 93-95: omega_trend(x) and phi_trend(x) are kept as terms
CorrectItem(item, fit) ==
    [item EXCEPT
        !.Omega = <<"omega_trend", item.Angular>>,
        !.Phi   = <<"phi_trend", item.Angular>>,
        !.Kappa = kappa_trend(fit[1], fit[2], ToFloat(item.Angular))]

\* lines 86-95
apply_orientation_correction(items, seq_id, fit) ==
    LET reach == Reached(items, SetToSeq(SequencePositions(items, seq_id)), {})
    IN  [items |-> [i \in 1..Len(items) |->
                       IF i \in reach.set
                          /\ IsCorrected(items[i].Calibration_Status)
                       THEN CorrectItem(items[i], fit)
                       ELSE items[i]],
         raised |-> reach.raised]

----------------------------------------------------------------------------
(* The datasets the pipeline is run on. *)

MaxItemsA  == 5
MaxItemsB  == 3
MaxExtras  == 2
MaxOriginals == 5

Item(id, number, ts, seq, status, ang) ==
    [id |-> id, ImageNumber |-> number, Timestamp |-> ts, Sequence |-> seq,
     Calibration_Status |-> status, Angular |-> ang,
     Omega |-> <<"given", NoAngle>>, Phi |-> <<"given", NoAngle>>, Kappa |-> 0,
     X |-> <<"given", NoAngle, 0>>, Y |-> <<"given", NoAngle, 0>>, Z |-> 0,
     parsed_ts |-> TsAbsent]

Step(ctx, items) ==
    [ctx |-> ctx, radius |-> 10, z |-> 5, items |-> items]

Kind(status, ang, seq) == [st |-> status, ang |-> ang, seq |-> seq]

Lists(kinds, lo, hi) == UNION {[1..n -> kinds] : n \in lo..hi}

\* a list numbered and stamped: "ascending" numbers, "descending" numbers,
\* or one number with descending "stamps" of which the first is missing
Numbered(kinds, how) ==
    LET n == Len(kinds)
    IN  [i \in 1..n |->
            Item(i,
                 IF how = "ascending" THEN i
                 ELSE IF how = "descending" THEN n + 1 - i ELSE 1,
                 IF how = "stamps" /\ i > 1 THEN n + 1 - i ELSE -1,
                 kinds[i].seq, kinds[i].st, kinds[i].ang)]

\* A: one step, anchors whose angles differ by less than 0.01, by less than
\* 1 and by 1 or more, with uncalibrated items among them
KindsA ==
    {Kind(StatusOriginal, a, "A") : a \in {<<0, 1>>, <<1, 200>>, <<1, 1>>}}
    \cup {Kind(StatusUncalibrated, NoAngle, "A")}

DatasetsA ==
    {[order |-> <<"S1">>,
      data  |-> [s \in {"S1"} |-> Step(ContextKeys, Numbered(l, "ascending"))]]
        : l \in Lists(KindsA, 1, MaxItemsA)}

\* B: two steps visited in either order, either with or without its
\* context, the first one's list out of order, with anchors of either
\* status, one of them without an angle
KindsB ==
    {Kind(StatusOriginal, <<0, 1>>, "A"), Kind(StatusOriginal, <<2, 1>>, "A"),
     Kind(StatusVisual, NoAngle, NoSequence), Kind(StatusUncalibrated, NoAngle, "A")}

ContextsB == {ContextKeys} \cup {ContextKeys \ {k} : k \in ContextKeys}

FixedB == <<Kind(StatusOriginal, <<90, 1>>, "A"), Kind(StatusUncalibrated, NoAngle, "A"),
            Kind(StatusUncalibrated, NoAngle, "A"), Kind(StatusOriginal, <<0, 1>>, "A")>>

DatasetsB ==
    {[order |-> o,
      data  |-> [s \in {"S1", "S2"} |->
                    IF s = "S1" THEN Step(c1, Numbered(l, how))
                    ELSE Step(c2, Numbered(FixedB, "descending"))]]
        : o \in {<<"S1", "S2">>, <<"S2", "S1">>},
          c1 \in ContextsB, c2 \in {ContextKeys, {}},
          l \in Lists(KindsB, 0, MaxItemsB), how \in {"descending", "stamps"}}

\* C: one step; sequence "A" holds 2..MaxOriginals originals whose angles
\* follow one of the patterns (0: all apart, -1: the first missing, k: the
\* first k equal), with other items of this and of other sequences after them or,
\* numbered downwards, before them
OriginalAngle(pattern, i) ==
    IF pattern = 0 THEN <<10 * i, 1>>
    ELSE IF pattern = -1 THEN (IF i = 1 THEN NoAngle ELSE <<10 * i, 1>>)
    ELSE IF i <= pattern THEN <<10, 1>> ELSE <<10 * i, 1>>

KindsC ==
    {Kind(StatusVisual, <<15, 1>>, "A"), Kind(StatusVisual, NoAngle, "A"),
     Kind(StatusUncalibrated, <<35, 1>>, "A"), Kind(StatusVisual, <<15, 1>>, "B"),
     Kind(StatusEstimated, <<25, 1>>, NoSequence)}

PatternsC(n) == {-1, 0, 2, 3, n}

DatasetsC ==
    {[order |-> <<"S1">>,
      data  |-> [s \in {"S1"} |->
                    Step(ContextKeys,
                         Numbered([i \in 1..n |->
                                      Kind(StatusOriginal, OriginalAngle(p, i), "A")]
                                  \o l, how))]]
        : n \in 2..MaxOriginals, p \in PatternsC(MaxOriginals),
          l \in Lists(KindsC, 1, MaxExtras),
          how \in {"ascending", "descending"}}

Datasets == DatasetsA \cup DatasetsB \cup DatasetsC

\* lines 73-74: np.polyfit's (kappa_slope, kappa_intercept), in quanta
KappaFits == {<<0, -180 * Quanta - 1>>, <<Quanta, 100 * Quanta>>}

----------------------------------------------------------------------------
(* The pipeline: interpolate_positions, then propagate_orientation on the  *)
(* file it wrote.                                                          *)

Init ==
    /\ \E d \in Datasets : data = d.data /\ order = d.order
    /\ input = data
    /\ mid = data
    /\ pc = "interpolate"
    /\ si = 1
    /\ segs = <<>>
    /\ seqs = <<>>
    /\ file = <<>>
    /\ kin = <<0, 0, 0>>
    /\ kout = 0

Current == data[order[si]]

SetItems(items) == [data EXCEPT ![order[si]].items = items]

\* step 05, lines 16-22: a step without its context is passed over
InterpolateSkipStep ==
    /\ pc = "interpolate"
    /\ si <= Len(order)
    /\ ~HasContext(Current)
    /\ si' = si + 1
    /\ UNCHANGED <<data, order, pc, segs, seqs, file, input, mid, kin, kout>>

\* step 05, lines 24-52: parse the stamps, sort, find the segments
InterpolateScanStep ==
    /\ pc = "interpolate"
    /\ si <= Len(order)
    /\ HasContext(Current)
    /\ LET sorted == SortItems(WithParsedTs(Current.items))
       IN  /\ data' = SetItems(sorted)
           /\ segs' = uncalibrated_segments(sorted)
    /\ pc' = "segments"
    /\ UNCHANGED <<order, si, seqs, file, input, mid, kin, kout>>

\* step 05, lines 55-62: a segment that cannot be interpolated
InterpolateSkipSegment ==
    /\ pc = "segments"
    /\ segs # <<>>
    /\ SkipsSegment(Current.items[Head(segs).start].Angular,
                    Current.items[Head(segs).end].Angular)
    /\ segs' = Tail(segs)
    /\ UNCHANGED <<data, order, pc, si, seqs, file, input, mid, kin, kout>>

\* step 05, lines 55-82: a segment that is interpolated
InterpolateFillSegment ==
    /\ pc = "segments"
    /\ segs # <<>>
    /\ ~SkipsSegment(Current.items[Head(segs).start].Angular,
                     Current.items[Head(segs).end].Angular)
    /\ data' = SetItems(FillSegment(Current.items, Head(segs),
                                    Current.radius, Current.z))
    /\ segs' = Tail(segs)
    /\ UNCHANGED <<order, pc, si, seqs, file, input, mid, kin, kout>>

\* step 05, lines 84-87: drop _parsed_ts and go to the next step
InterpolateEndStep ==
    /\ pc = "segments"
    /\ segs = <<>>
    /\ data' = SetItems(WithoutParsedTs(Current.items))
    /\ si' = si + 1
    /\ pc' = "interpolate"
    /\ UNCHANGED <<order, segs, seqs, file, input, mid, kin, kout>>

\* step 05, lines 89-91, then step 06, lines 101-102: the file is written
\* and read back
InterpolateDump ==
    /\ pc = "interpolate"
    /\ si > Len(order)
    /\ file' = Append(file, data)
    /\ mid' = data
    /\ si' = 1
    /\ pc' = "propagate"
    /\ UNCHANGED <<data, order, segs, seqs, input, kin, kout>>

\* step 06, lines 104-113: group the step's items by sequence
PropagateGroupStep ==
    /\ pc = "propagate"
    /\ si <= Len(order)
    /\ seqs' = GroupKeys(Current.items, <<>>)
    /\ pc' = "sequences"
    /\ UNCHANGED <<data, order, si, segs, file, input, mid, kin, kout>>

\* step 06, lines 116-119: a sequence with fewer than 3 originals
PropagateSkipSequence ==
    /\ pc = "sequences"
    /\ seqs # <<>>
    /\ ~EnoughOriginals(Current.items, Head(seqs))
    /\ seqs' = Tail(seqs)
    /\ UNCHANGED <<data, order, pc, si, segs, file, input, mid, kin, kout>>

\* step 06, lines 121-122: the trends are fitted and applied; line 92 may
\* raise part of the way through the sequence
PropagateCorrectSequence ==
    /\ pc = "sequences"
    /\ seqs # <<>>
    /\ EnoughOriginals(Current.items, Head(seqs))
    /\ "ok" \in FitOutcomes(Current.items, Originals(Current.items, Head(seqs)))
    /\ \E fit \in KappaFits :
          LET res == apply_orientation_correction(Current.items, Head(seqs), fit)
          IN  /\ data' = SetItems(res.items)
              /\ pc' = IF res.raised THEN "raised" ELSE pc
    /\ seqs' = Tail(seqs)
    /\ UNCHANGED <<order, si, segs, file, input, mid, kin, kout>>

\* step 06, line 121: compute_sinusoidal_offsets raises
PropagateFitRaises ==
    /\ pc = "sequences"
    /\ seqs # <<>>
    /\ EnoughOriginals(Current.items, Head(seqs))
    /\ "raise" \in FitOutcomes(Current.items, Originals(Current.items, Head(seqs)))
    /\ pc' = "raised"
    /\ UNCHANGED <<data, order, si, segs, seqs, file, input, mid, kin, kout>>

\* step 06, line 104: the next step
PropagateEndStep ==
    /\ pc = "sequences"
    /\ seqs = <<>>
    /\ si' = si + 1
    /\ pc' = "propagate"
    /\ UNCHANGED <<data, order, segs, seqs, file, input, mid, kin, kout>>

\* step 06, lines 124-126
PropagateDump ==
    /\ pc = "propagate"
    /\ si > Len(order)
    /\ file' = Append(file, data)
    /\ pc' = "done"
    /\ UNCHANGED <<data, order, si, segs, seqs, input, mid, kin, kout>>

Next ==
    \/ InterpolateSkipStep
    \/ InterpolateScanStep
    \/ InterpolateSkipSegment
    \/ InterpolateFillSegment
    \/ InterpolateEndStep
    \/ InterpolateDump
    \/ PropagateGroupStep
    \/ PropagateSkipSequence
    \/ PropagateCorrectSequence
    \/ PropagateFitRaises
    \/ PropagateEndStep
    \/ PropagateDump

Spec == Init /\ [][Next]_vars

----------------------------------------------------------------------------
(* kappa_trend on its own. *)

KappaSlopes     == {Round(k * Quanta) : k \in {-2, -1, 0, 1, 2}}
KappaIntercepts == {-180 * Quanta - 1, -180 * Quanta, -1, 0, 179 * Quanta,
                    180 * Quanta, Round(500 * Quanta), Round(-900 * Quanta)}
KappaAngles     == {Round(-400 * Quanta), -1, 0, 90 * Quanta,
                    Round(360 * Quanta)}

InitKappa ==
    /\ kin \in KappaSlopes \X KappaIntercepts \X KappaAngles
    /\ kout = 0
    /\ pc = "kappa"
    /\ data = <<>> /\ input = <<>> /\ mid = <<>> /\ order = <<>>
    /\ si = 1 /\ segs = <<>> /\ seqs = <<>> /\ file = <<>>

\* lines 76-78
EvalKappaTrend ==
    /\ pc = "kappa"
    /\ kout' = kappa_trend(kin[1], kin[2], kin[3])
    /\ pc' = "kappa_done"
    /\ UNCHANGED <<data, order, si, segs, seqs, file, input, mid, kin>>

NextKappa == EvalKappaTrend

SpecKappa == InitKappa /\ [][NextKappa]_vars

----------------------------------------------------------------------------
(* What the claims are stated over. *)

\* interpolate_positions has written its file: input and mid stay as they
\* are from here on
AfterInterpolation == pc = "propagate" /\ si = 1

InPropagation == pc \in {"propagate", "sequences", "done", "raised"}

ItemOf(items, id) == items[CHOOSE i \in 1..Len(items) : items[i].id = id]

\* the list of a step in the order interpolate_positions scans it
Scanned(name) == SortItems(WithParsedTs(input[name].items))

ContextComplete(name) ==
    {"axis_center", "calculated_radius", "calculated_z"} \subseteq input[name].ctx

Trusted(item) ==
    item.Calibration_Status \in {"original", "visually calibrated"}

SamePosition(a, b) ==
    /\ a.Calibration_Status = b.Calibration_Status
    /\ a.Angular = b.Angular
    /\ a.X = b.X /\ a.Y = b.Y /\ a.Z = b.Z

Untouched(name, item) ==
    /\ ItemOf(mid[name].items, item.id).Calibration_Status = "uncalibrated"
    /\ SamePosition(ItemOf(mid[name].items, item.id), item)

ClosedSegments(name) == uncalibrated_segments(Scanned(name))

Delta(items, seg) == RSub(items[seg.end].Angular, items[seg.start].Angular)

BothAngles(items, seg) ==
    items[seg.start].Angular # NoAngle /\ items[seg.end].Angular # NoAngle

\* |theta0 - theta1| < bound
DeltaBelow(items, seg, bound) == RLess(RAbs(Delta(items, seg)), bound)

Between(a, x, b) == (RLess(a, x) /\ RLess(x, b)) \/ (RLess(b, x) /\ RLess(x, a))

----------------------------------------------------------------------------
(* C1: in a step with context, an uncalibrated item that precedes the      *)
(* first anchor in sort order is still uncalibrated after interpolation,   *)
(* with its Angular position, X, Y and Z unchanged.                        *)
C1_LeadingRunDropped ==
    AfterInterpolation =>
        \A name \in DOMAIN input :
            ContextComplete(name) =>
                LET s == Scanned(name)
                IN  \A i \in 1..Len(s) :
                        (/\ s[i].Calibration_Status = "uncalibrated"
                         /\ \A j \in 1..(i - 1) : ~Trusted(s[j]))
                        => Untouched(name, s[i])

(* C2: the only change of status interpolation ever makes to an item is    *)
(* 'uncalibrated' to 'estimated'.                                          *)
C2_StatusMonotonic ==
    \A name \in DOMAIN input :
        \A k \in 1..Len(input[name].items) :
            LET before == input[name].items[k].Calibration_Status
                after  == ItemOf(data[name].items, input[name].items[k].id)
                              .Calibration_Status
            IN  before # after => before = "uncalibrated" /\ after = "estimated"

C2_Witness ==
    /\ AfterInterpolation
    /\ \E name \in DOMAIN input :
          /\ \E k \in 1..Len(input[name].items) :
                /\ input[name].items[k].Calibration_Status = "uncalibrated"
                /\ ItemOf(mid[name].items, input[name].items[k].id)
                       .Calibration_Status = "estimated"
          /\ \E k \in 1..Len(input[name].items) :
                /\ input[name].items[k].Calibration_Status = "visually calibrated"
                /\ ItemOf(mid[name].items, input[name].items[k].id)
                       .Calibration_Status = "visually calibrated"

(* C3: no error propagates out of the pipeline: the run never ends in an   *)
(* exception.                                                              *)
C3_NoErrorEscapes == pc # "raised"

(* C4: a closed segment with an endpoint angle missing or with             *)
(* |theta0 - theta1| < 0.01 leaves its run uncalibrated and unchanged, and *)
(* the other closed segments of the step are interpolated all the same.    *)
C4_DegenerateSegmentSkipped ==
    AfterInterpolation =>
        \A name \in DOMAIN input :
            ContextComplete(name) =>
                LET s    == Scanned(name)
                    segm == ClosedSegments(name)
                IN  \A k \in 1..Len(segm) :
                        \A r \in 1..Len(segm[k].run) :
                            IF ~BothAngles(s, segm[k])
                            THEN Untouched(name, s[segm[k].run[r]])
                            ELSE IF DeltaBelow(s, segm[k], <<1, 100>>)
                            THEN Untouched(name, s[segm[k].run[r]])
                            ELSE ItemOf(mid[name].items, s[segm[k].run[r]].id)
                                     .Calibration_Status = "estimated"

C4_Skips(s, seg) ==
    IF ~BothAngles(s, seg) THEN TRUE ELSE DeltaBelow(s, seg, <<1, 100>>)

C4_Witness ==
    /\ AfterInterpolation
    /\ \E name \in DOMAIN input :
          LET s    == Scanned(name)
              segm == ClosedSegments(name)
          IN  /\ Len(segm) >= 2
              /\ BothAngles(s, segm[1])
              /\ s[segm[1].start].Angular # s[segm[1].end].Angular
              /\ DeltaBelow(s, segm[1], <<1, 100>>)
              /\ Untouched(name, s[segm[1].run[1]])
              /\ ~C4_Skips(s, segm[2])
              /\ ItemOf(mid[name].items, s[segm[2].run[1]].id)
                     .Calibration_Status = "estimated"

(* C5: in a closed segment with both angles present and                    *)
(* |theta1 - theta0| >= 1, the i-th of the n run items gets the angle      *)
(* theta0 + i*(theta1 - theta0)/(n+1), strictly between theta0 and theta1  *)
(* and strictly monotonic in i, status 'estimated' and Z = calculated_z.   *)
C5_InteriorAngles ==
    AfterInterpolation =>
        \A name \in DOMAIN input :
            ContextComplete(name) =>
                LET s    == Scanned(name)
                    segm == ClosedSegments(name)
                    out(seg, r) == ItemOf(mid[name].items, s[seg.run[r]].id)
                IN  \A k \in 1..Len(segm) :
                        (IF BothAngles(s, segm[k])
                         THEN ~DeltaBelow(s, segm[k], <<1, 1>>) ELSE FALSE)
                        => LET t0 == s[segm[k].start].Angular
                               t1 == s[segm[k].end].Angular
                               n  == Len(segm[k].run)
                           IN  \A r \in 1..n :
                                  /\ out(segm[k], r).Angular =
                                        RAdd(t0, RDivInt(RMul(RInt(r), RSub(t1, t0)), n + 1))
                                  /\ Between(t0, out(segm[k], r).Angular, t1)
                                  /\ r > 1 =>
                                        (RLess(t0, t1) <=>
                                            RLess(out(segm[k], r - 1).Angular,
                                                  out(segm[k], r).Angular))
                                  /\ out(segm[k], r).Calibration_Status = "estimated"
                                  /\ out(segm[k], r).Z = input[name].z

C5_Witness ==
    /\ AfterInterpolation
    /\ "S2" \in DOMAIN input
    /\ ContextComplete("S2")
    /\ Scanned("S2")[1].Angular = <<0, 1>>
    /\ Scanned("S2")[4].Angular = <<90, 1>>
    /\ Len(ClosedSegments("S2")) = 1
    /\ ClosedSegments("S2")[1].run = <<2, 3>>
    /\ ItemOf(mid["S2"].items, Scanned("S2")[2].id).Angular = <<30, 1>>
    /\ ItemOf(mid["S2"].items, Scanned("S2")[3].id).Angular = <<60, 1>>
    /\ ItemOf(mid["S2"].items, Scanned("S2")[3].id).Z = 5

C7_CorrectorFrame ==
    InPropagation =>
        \A name \in DOMAIN mid :
            /\ Len(data[name].items) = Len(mid[name].items)
            /\ \A i \in 1..Len(mid[name].items) :
                  LET old == mid[name].items[i]
                      new == data[name].items[i]
                  IN  /\ [new EXCEPT !.Omega = old.Omega, !.Phi = old.Phi,
                                     !.Kappa = old.Kappa] = old
                      /\ old.Calibration_Status \in {"original", "uncalibrated"}
                            => new = old

C7_Witness ==
    /\ pc = "done"
    /\ \E name \in DOMAIN mid :
          \E i, j \in 1..Len(mid[name].items) :
              /\ mid[name].items[i].Calibration_Status = "uncalibrated"
              /\ mid[name].items[i].Angular # NoAngle
              /\ mid[name].items[j].Calibration_Status
                    \in {"visually calibrated", "estimated"}
              /\ mid[name].items[i].Sequence = mid[name].items[j].Sequence
              /\ data[name].items[j].Omega # mid[name].items[j].Omega
              /\ data[name].items[j].Phi # mid[name].items[j].Phi
              /\ data[name].items[j].Kappa # mid[name].items[j].Kappa
              /\ data[name].items[i] = mid[name].items[i]

SequenceOf(item) == IF item.Sequence = NoSequence THEN "Unknown" ELSE item.Sequence

OriginalsIn(items, seq_id) ==
    {i \in 1..Len(items) :
        SequenceOf(items[i]) = seq_id /\ items[i].Calibration_Status = "original"}

(* C8: an item is changed by propagate_orientation only if its own         *)
(* sequence holds at least 3 'original' items, and when the run completes  *)
(* every sequence that holds 3 has been corrected, whichever sequences     *)
(* were passed over before it.                                             *)
C8_InsufficientAnchors ==
    InPropagation =>
        \A name \in DOMAIN mid :
            \A i \in 1..Len(mid[name].items) :
                LET enough == Cardinality(OriginalsIn(mid[name].items,
                                  SequenceOf(mid[name].items[i]))) >= 3
                IN  /\ data[name].items[i] # mid[name].items[i] => enough
                    /\ (/\ pc = "done"
                        /\ enough
                        /\ mid[name].items[i].Calibration_Status
                              \in {"visually calibrated", "estimated"})
                       => data[name].items[i].Omega[1] = "omega_trend"

C8_Witness ==
    /\ pc = "done"
    /\ \E name \in DOMAIN mid :
          \E i, j \in 1..Len(mid[name].items) :
              /\ i < j
              /\ mid[name].items[i].Calibration_Status = "visually calibrated"
              /\ mid[name].items[j].Calibration_Status = "visually calibrated"
              /\ Cardinality(OriginalsIn(mid[name].items,
                     SequenceOf(mid[name].items[i]))) < 3
              /\ data[name].items[i] = mid[name].items[i]
              /\ data[name].items[j].Omega[1] = "omega_trend"

(* C9: kappa_trend(x) lies in the half-open range [-180, 180).             *)
C9_KappaHalfOpen ==
    pc = "kappa_done" => -180 * Quanta <= kout /\ kout < 180 * Quanta

(* C9, as amended: kappa_trend(x) lies in the closed range [-180, 180].    *)
C9_KappaClosed ==
    pc = "kappa_done" => -180 * Quanta <= kout /\ kout <= 180 * Quanta

C9_Witness ==
    /\ pc = "kappa_done"
    /\ kin[1] * kin[3] + kin[2] * Quanta < -360 * Quanta * Quanta
    /\ -180 * Quanta <= kout /\ kout < 0

(* C10: a step that lacks axis_center, calculated_radius or calculated_z   *)
(* is left exactly as it was, and every step that has all three is         *)
(* processed in the same run, in whichever order the steps are visited.    *)
C10_MissingContext ==
    AfterInterpolation =>
        \A name \in DOMAIN input :
            IF ContextComplete(name)
            THEN LET s == Scanned(name)
                 IN  /\ Len(mid[name].items) = Len(s)
                     /\ \A i \in 1..Len(s) :
                           /\ mid[name].items[i].id = s[i].id
                           /\ mid[name].items[i].parsed_ts = TsAbsent
                     /\ \A k \in 1..Len(ClosedSegments(name)) :
                           C4_Skips(s, ClosedSegments(name)[k])
                           \/ \A r \in 1..Len(ClosedSegments(name)[k].run) :
                                 mid[name].items[ClosedSegments(name)[k].run[r]]
                                     .Calibration_Status = "estimated"
            ELSE mid[name] = input[name]

C10_Witness ==
    /\ AfterInterpolation
    /\ Len(order) = 2
    /\ ~ContextComplete(order[1])
    /\ input[order[1]].ctx # {}
    /\ Len(input[order[1]].items) >= 2
    /\ \E i \in 1..Len(input[order[1]].items) :
          Scanned(order[1])[i].id # input[order[1]].items[i].id
    /\ mid[order[1]] = input[order[1]]
    /\ ContextComplete(order[2])
    /\ \E i \in 1..Len(mid[order[2]].items) :
          mid[order[2]].items[i].Calibration_Status = "estimated"
          /\ ItemOf(input[order[2]].items, mid[order[2]].items[i].id)
                 .Calibration_Status = "uncalibrated"

=============================================================================
